---- MODULE Spec2Model ----
(***************************************************************************)
(* The WeatherApp component of src/app/page.tsx as a state machine.        *)
(*                                                                         *)
(* State: the four useState cells (city, weatherData, loading, error) and  *)
(* the fetchWeatherData invocations that are suspended at one of their two *)
(* await points (await fetch(...), await response.json()).  JavaScript     *)
(* runs every handler and every continuation to its next await without     *)
(* interleaving, so one action is one such run.                            *)
(*                                                                         *)
(* A nullable value (string | null, WeatherData | null, err.message) is a  *)
(* sequence of length 0 (null / undefined) or 1.  A string the code trims  *)
(* is a sequence of characters.                                            *)
(*                                                                         *)
(* The derivation functions (getDayOrNight, getWeatherIcon,                *)
(* getBackgroundClass) are pure; DeriveSpec calls each of them on          *)
(* arguments drawn from bounded sets.  FairSpec is Spec with every         *)
(* suspended invocation eventually resumed.                                *)
(***************************************************************************)
EXTENDS Integers, Sequences, FiniteSets, TLC

VARIABLES
    city,        \* useState('')          : the text of the input
    weatherData, \* useState(null)        : None or Some(payload)
    loading,     \* useState(false)
    error,       \* useState(null)        : None or Some(message)
    inflight,    \* suspended fetchWeatherData invocations: [id, q, pc]
    issued,      \* number of fetch() calls made so far (also the id source)
    submits,     \* number of submits whose trimmed query was non-empty
    lastQuery,   \* None or Some(the query of the latest fetch() call)
    lastEvent,   \* the handler or continuation that ran last
    call         \* a call of a derivation function: [fn, args, result]

vars == <<city, weatherData, loading, error, inflight, issued, submits,
          lastQuery, lastEvent, call>>

\* everything but the record of which handler ran last
progVars == <<city, weatherData, loading, error, inflight, issued, submits,
              lastQuery, call>>

----------------------------------------------------------------------------
\* Bounds of the model

\* fetch() calls issued in one behaviour
MaxRequests == 3

\* dt, sunrise and sunset (seconds) handed to getDayOrNight: 0..MaxTime
MaxTime == 3

\* timezone (seconds) handed to getDayOrNight: -MaxOffset..MaxOffset
MaxOffset == 2

\* longest icon code handed to getWeatherIcon and getBackgroundClass
MaxCodeLen == 3

----------------------------------------------------------------------------
\* Values

None == <<>>

Some(x) == <<x>>

\* e.target.value: the empty text, a whitespace-only text, a city name and
\* another city name with white space around it
Texts == {<<>>, <<" ">>, <<"P">>, <<" ", "Z", " ">>}

\* event.key values delivered to handleKeyDown
Keys == {"Enter", "Escape"}

\* response.status values the provider answers with
Statuses == {200, 404, 500}

\* data.cod values of a parsed body
Cods == {200, 404}

\* main.temp values of a parsed body
Temps == {19, 20}

\* err.message of a rejected fetch() or response.json(): undefined, '' or text
ErrMessages == {None, Some(""), Some("Failed to fetch")}

MsgNotFoundHttp == "City not found. Please enter a valid city name."

MsgGeneric == "An error occurred while fetching weather data."

MsgNotFoundPayload == "City not found"

MsgFallback == "An unexpected error occurred."

\* the parsed bodies the provider can answer a request for q with
Payloads(q) == {[name |-> q, temp |-> t, cod |-> c] : t \in Temps, c \in Cods}

----------------------------------------------------------------------------
\* Pure helpers

IsSpace(c) == c = " "

RECURSIVE TrimStart(_)
TrimStart(s) ==
    IF s = <<>> THEN <<>>
    ELSE IF IsSpace(Head(s)) THEN TrimStart(Tail(s))
    ELSE s

RECURSIVE TrimEnd(_)
TrimEnd(s) ==
    IF s = <<>> THEN <<>>
    ELSE IF IsSpace(s[Len(s)]) THEN TrimEnd(SubSeq(s, 1, Len(s) - 1))
    ELSE s

\* String.prototype.trim
Trim(s) == TrimEnd(TrimStart(s))

\* JavaScript truthiness of a string | null | undefined
Truthy(o) == o # None /\ o[1] # ""

\* response.ok
ResponseOk(status) == status \in 200..299

----------------------------------------------------------------------------
\* Derivation functions

\* no derivation function is being called
NoCall == [fn |-> "none", args |-> <<>>, result |-> None]

Times == 0..MaxTime

Offsets == (0 - MaxOffset)..MaxOffset

\* characters of weather[0].icon
CodeChars == {"0", "1", "2", "3", "4", "5", "9", "d"}

\* icon codes: every text of at most MaxCodeLen characters
CodeTexts == UNION {[1..n -> CodeChars] : n \in 0..MaxCodeLen}

\* weatherCode?: string, absent when getBackgroundClass() is called bare
OptCodes == {None} \cup {Some(c) : c \in CodeTexts}

\* sunset excluded from the day
GetDayOrNightExclusive(dt, timezone, sunrise, sunset) ==
    LET localTime == dt + timezone
        sunriseLocal == sunrise + timezone
        sunsetLocal == sunset + timezone
    IN  localTime >= sunriseLocal /\ localTime < sunsetLocal

\* getDayOrNight
GetDayOrNight(dt, timezone, sunrise, sunset) ==
    LET localTime == dt + timezone
        sunriseLocal == sunrise + timezone
        sunsetLocal == sunset + timezone
    IN  localTime >= sunriseLocal /\ localTime <= sunsetLocal

\* String.prototype.slice(0, 2)
Slice02(str) == SubSeq(str, 1, IF Len(str) < 2 THEN Len(str) ELSE 2)

\* !weatherCode, !iconCode: the code is absent or the empty string
NoCode(code) == code = None \/ code[1] = <<>>

ThemeNeutral == "from-blue-100 to-blue-300 dark:from-gray-800 dark:to-gray-900"

ThemeClearDay == "from-sky-400 to-blue-500 dark:from-blue-900 dark:to-indigo-900"

ThemeClearNight == "from-indigo-900 to-gray-900 dark:from-gray-900 dark:to-black"

ThemeCloudsDay == "from-blue-300 to-blue-400 dark:from-blue-800 dark:to-blue-900"

ThemeCloudsNight == "from-blue-800 to-indigo-900 dark:from-gray-800 dark:to-gray-900"

ThemeOvercast == "from-gray-300 to-gray-400 dark:from-gray-700 dark:to-gray-800"

ThemeRain == "from-gray-400 to-blue-500 dark:from-gray-700 dark:to-blue-900"

ThemeThunder == "from-gray-600 to-blue-700 dark:from-gray-800 dark:to-blue-900"

ThemeSnow == "from-blue-100 to-blue-300 dark:from-blue-800 dark:to-blue-900"

ThemeFog == "from-gray-200 to-gray-300 dark:from-gray-600 dark:to-gray-700"

\* the test for '10' left out of the rain branch
GetBackgroundClassRain09Only(weatherCode, isDay) ==
    IF NoCode(weatherCode) THEN ThemeNeutral
    ELSE LET code == Slice02(weatherCode[1])
         IN  IF code = <<"0", "1">>
             THEN (IF isDay THEN ThemeClearDay ELSE ThemeClearNight)
             ELSE IF code = <<"0", "2">> \/ code = <<"0", "3">>
             THEN (IF isDay THEN ThemeCloudsDay ELSE ThemeCloudsNight)
             ELSE IF code = <<"0", "4">> THEN ThemeOvercast
             ELSE IF code = <<"0", "9">> THEN ThemeRain
             ELSE IF code = <<"1", "1">> THEN ThemeThunder
             ELSE IF code = <<"1", "3">> THEN ThemeSnow
             ELSE IF code = <<"5", "0">> THEN ThemeFog
             ELSE ThemeNeutral

\* getBackgroundClass
GetBackgroundClass(weatherCode, isDay) ==
    IF NoCode(weatherCode) THEN ThemeNeutral
    ELSE LET code == Slice02(weatherCode[1])
         IN  IF code = <<"0", "1">>
             THEN (IF isDay THEN ThemeClearDay ELSE ThemeClearNight)
             ELSE IF code = <<"0", "2">> \/ code = <<"0", "3">>
             THEN (IF isDay THEN ThemeCloudsDay ELSE ThemeCloudsNight)
             ELSE IF code = <<"0", "4">> THEN ThemeOvercast
             ELSE IF code = <<"0", "9">> \/ code = <<"1", "0">> THEN ThemeRain
             ELSE IF code = <<"1", "1">> THEN ThemeThunder
             ELSE IF code = <<"1", "3">> THEN ThemeSnow
             ELSE IF code = <<"5", "0">> THEN ThemeFog
             ELSE ThemeNeutral

\* <Glyph className={`w-8 h-8 ${colour}`} />
Icon(glyph, colour) == [glyph |-> glyph, colour |-> colour]

\* getWeatherIcon
GetWeatherIcon(iconCode, isDay) ==
    IF NoCode(iconCode) THEN Icon("Cloud", "text-gray-500")
    ELSE LET code == Slice02(iconCode[1])
         IN  CASE code = <<"0", "1">> ->
                    (IF isDay THEN Icon("Sun", "text-yellow-400")
                     ELSE Icon("Moon", "text-gray-300"))
               [] code \in {<<"0", "2">>, <<"0", "3">>} ->
                    (IF isDay THEN Icon("CloudSun", "text-yellow-400")
                     ELSE Icon("CloudMoon", "text-gray-300"))
               [] code = <<"0", "4">> -> Icon("Cloud", "text-gray-400")
               [] code \in {<<"0", "9">>, <<"1", "0">>} ->
                    Icon("CloudRain", "text-blue-400")
               [] code = <<"1", "1">> -> Icon("CloudLightning", "text-yellow-300")
               [] code = <<"1", "3">> -> Icon("CloudSnow", "text-blue-200")
               [] code = <<"5", "0">> -> Icon("CloudFog", "text-gray-300")
               [] OTHER -> Icon("Cloud", "text-gray-400")

----------------------------------------------------------------------------
\* What the component renders

\* if (error) return <error panel>; the input, the search button and the
\* result panel are rendered only in the other branch
ErrorPanelShown == Truthy(error)

InputRendered == ~Truthy(error)

\* {weatherData && (...)} inside the branch that is rendered without an error
ResultPanelShown == ~Truthy(error) /\ weatherData # None

\* <button onClick={handleSearch} disabled={loading}>
SearchButtonEnabled == InputRendered /\ ~loading

----------------------------------------------------------------------------
\* fetchWeatherData

\* the guard without the trim: a whitespace-only query passes it
ShouldFetchNoTrim(cityName) == cityName # <<>>

\* if (!cityName.trim()) return;
ShouldFetch(cityName) == Trim(cityName) # <<>>

\* the start of a fetch without setWeatherData(null)
BeginFetchKeepsData(cityName) ==
    /\ loading' = TRUE
    /\ error' = None
    /\ weatherData' = weatherData
    /\ issued' = issued + 1
    /\ inflight' = inflight \cup {[id |-> issued + 1, q |-> cityName, pc |-> "fetch"]}

\* setLoading(true); setError(null); setWeatherData(null); then fetch(...)
\* is called and the invocation suspends at await fetch
BeginFetch(cityName) ==
    /\ loading' = TRUE
    /\ error' = None
    /\ weatherData' = None
    /\ issued' = issued + 1
    /\ inflight' = inflight \cup {[id |-> issued + 1, q |-> cityName, pc |-> "fetch"]}

\* the synchronous part of fetchWeatherData(cityName)
FetchWeatherData(cityName) ==
    /\ submits' = IF Trim(cityName) = <<>> THEN submits ELSE submits + 1
    /\ IF ShouldFetch(cityName)
       THEN /\ issued < MaxRequests
            /\ BeginFetch(cityName)
            /\ lastQuery' = Some(cityName)
            /\ UNCHANGED <<city, call>>
            /\ lastEvent' = "submit"
       ELSE /\ UNCHANGED <<city, weatherData, loading, error, inflight, issued,
                          lastQuery, call>>
            /\ lastEvent' = "submitEmpty"

\* handleSearch
HandleSearch == FetchWeatherData(city)

\* an invocation that ends without running setLoading(false)
FinallySkipped == UNCHANGED loading

\* finally { setLoading(false); }
Finally == loading' = FALSE

\* the status test dropped: every failed response gets the generic message
HttpErrorMessageGeneric(status) == MsgGeneric

\* if (response.status === 404) ... else ...
HttpErrorMessage(status) ==
    IF status = 404 THEN MsgNotFoundHttp ELSE MsgGeneric

\* the payload test dropped: a body with cod 404 is stored as a snapshot
PayloadNotFoundNever(data) == FALSE

\* if (data.cod === 404) { setError('City not found'); return; }
PayloadNotFound(data) == data.cod = 404

\* err.message ?? fallback: an empty message is passed on as it is
CatchMessageNullish(msg) == IF msg # None THEN msg[1] ELSE MsgFallback

\* setError(err.message || 'An unexpected error occurred.')
CatchMessage(msg) == IF Truthy(msg) THEN msg[1] ELSE MsgFallback

\* a failed response that calls fetch again for the same city
OnHttpErrorRetry(r, status) ==
    /\ error' = Some(HttpErrorMessage(status))
    /\ Finally
    /\ issued' = issued + 1
    /\ inflight' = (inflight \ {r}) \cup {[id |-> issued + 1, q |-> r.q, pc |-> "fetch"]}
    /\ UNCHANGED <<city, weatherData, submits, lastQuery, call>>

\* the branch if (!response.ok) { setError(...); return; } and finally
OnHttpError(r, status) ==
    /\ error' = Some(HttpErrorMessage(status))
    /\ Finally
    /\ inflight' = inflight \ {r}
    /\ UNCHANGED <<city, weatherData, issued, submits, lastQuery, call>>

\* the branch if (data.cod === 404) { setError(...); return; } and finally
OnPayloadNotFound(r, data) ==
    /\ error' = Some(MsgNotFoundPayload)
    /\ Finally
    /\ inflight' = inflight \ {r}
    /\ UNCHANGED <<city, weatherData, issued, submits, lastQuery, call>>

\* a success branch that also calls setError(null)
OnDataClearsError(r, data) ==
    /\ weatherData' = Some(data)
    /\ error' = None
    /\ Finally
    /\ inflight' = inflight \ {r}
    /\ UNCHANGED <<city, issued, submits, lastQuery, call>>

\* a success branch with a request token: the body of a request that is
\* not the latest one issued is dropped
OnDataIfLatest(r, data) ==
    /\ weatherData' = IF r.id = issued THEN Some(data) ELSE weatherData
    /\ Finally
    /\ inflight' = inflight \ {r}
    /\ UNCHANGED <<city, error, issued, submits, lastQuery, call>>

\* setWeatherData(data) and finally
OnData(r, data) ==
    /\ weatherData' = Some(data)
    /\ Finally
    /\ inflight' = inflight \ {r}
    /\ UNCHANGED <<city, error, issued, submits, lastQuery, call>>

\* catch (err) { setError(err.message || ...) } and finally
OnException(r, msg) ==
    /\ error' = Some(CatchMessage(msg))
    /\ Finally
    /\ inflight' = inflight \ {r}
    /\ UNCHANGED <<city, weatherData, issued, submits, lastQuery, call>>

----------------------------------------------------------------------------
\* Actions

Init ==
    /\ city = <<>>
    /\ weatherData = None
    /\ loading = FALSE
    /\ error = None
    /\ inflight = {}
    /\ issued = 0
    /\ submits = 0
    /\ lastQuery = None
    /\ lastEvent = "mount"
    /\ call = NoCall

\* an onChange that also gives up the pending search
TypeCityCancels(v) ==
    /\ InputRendered
    /\ v # city
    /\ city' = v
    /\ loading' = FALSE
    /\ UNCHANGED <<weatherData, error, inflight, issued, submits, lastQuery, call>>
    /\ lastEvent' = "type"

\* onChange={(e) => setCity(e.target.value)}
TypeCity(v) ==
    /\ InputRendered
    /\ v # city
    /\ city' = v
    /\ UNCHANGED <<weatherData, loading, error, inflight, issued, submits, lastQuery, call>>
    /\ lastEvent' = "type"

\* onClick={handleSearch} of the search button
ClickSearch ==
    /\ SearchButtonEnabled
    /\ HandleSearch

\* handleKeyDown: onKeyDown of the input
HandleKeyDown(key) ==
    /\ InputRendered
    /\ IF key = "Enter"
       THEN HandleSearch
       ELSE /\ UNCHANGED progVars
            /\ lastEvent' = "key"

\* await fetch(...) resumes with a response
FetchResolves(r, status) ==
    /\ r \in inflight
    /\ r.pc = "fetch"
    /\ IF ~ResponseOk(status)
       THEN /\ OnHttpError(r, status)
            /\ lastEvent' = "httpError"
       ELSE /\ inflight' = (inflight \ {r}) \cup {[r EXCEPT !.pc = "json"]}
            /\ UNCHANGED <<city, weatherData, loading, error, issued, submits, lastQuery, call>>
            /\ lastEvent' = "httpOk"

\* await fetch(...) throws (the transport failed)
FetchRejects(r, msg) ==
    /\ r \in inflight
    /\ r.pc = "fetch"
    /\ OnException(r, msg)
    /\ lastEvent' = "fetchThrew"

\* await response.json() resumes with the parsed body
JsonResolves(r, data) ==
    /\ r \in inflight
    /\ r.pc = "json"
    /\ data \in Payloads(r.q)
    /\ IF PayloadNotFound(data)
       THEN /\ OnPayloadNotFound(r, data)
            /\ lastEvent' = "payloadNotFound"
       ELSE /\ OnData(r, data)
            /\ lastEvent' = "data"

\* await response.json() throws (the body is not JSON)
JsonRejects(r, msg) ==
    /\ r \in inflight
    /\ r.pc = "json"
    /\ OnException(r, msg)
    /\ lastEvent' = "jsonThrew"

\* onClick of the button of the error panel
Dismiss ==
    /\ ErrorPanelShown
    /\ error' = None
    /\ city' = <<>>
    /\ UNCHANGED <<weatherData, loading, inflight, issued, submits, lastQuery, call>>
    /\ lastEvent' = "dismiss"

Next ==
    \/ \E v \in Texts : TypeCity(v)
    \/ ClickSearch
    \/ \E key \in Keys : HandleKeyDown(key)
    \/ \E r \in inflight, status \in Statuses : FetchResolves(r, status)
    \/ \E r \in inflight, msg \in ErrMessages : FetchRejects(r, msg)
    \/ \E r \in inflight : \E data \in Payloads(r.q) : JsonResolves(r, data)
    \/ \E r \in inflight, msg \in ErrMessages : JsonRejects(r, msg)
    \/ Dismiss

Spec == Init /\ [][Next]_vars

\* a suspended invocation of fetchWeatherData resumes
Resume ==
    \/ \E r \in inflight, status \in Statuses : FetchResolves(r, status)
    \/ \E r \in inflight, msg \in ErrMessages : FetchRejects(r, msg)
    \/ \E r \in inflight : \E data \in Payloads(r.q) : JsonResolves(r, data)
    \/ \E r \in inflight, msg \in ErrMessages : JsonRejects(r, msg)

\* the component under the assumption that every request issued is answered
\* or fails: a promise that can settle does settle
FairSpec == Spec /\ WF_vars(Resume)

----------------------------------------------------------------------------
\* The derivation functions on their own: a call with arguments drawn from
\* the sets above, then its result

DayCalls ==
    {[fn |-> "getDayOrNight",
      args |-> [dt |-> dt, timezone |-> tz, sunrise |-> sr, sunset |-> ss],
      result |-> None] : dt \in Times, tz \in Offsets, sr \in Times, ss \in Times}

CodeCalls ==
    {[fn |-> fn, args |-> [code |-> c, isDay |-> d], result |-> None] :
        fn \in {"getWeatherIcon", "getBackgroundClass"},
        c \in OptCodes, d \in BOOLEAN}

DeriveInit ==
    /\ city = <<>>
    /\ weatherData = None
    /\ loading = FALSE
    /\ error = None
    /\ inflight = {}
    /\ issued = 0
    /\ submits = 0
    /\ lastQuery = None
    /\ lastEvent = "mount"
    /\ call \in DayCalls \cup CodeCalls

uiVars == <<city, weatherData, loading, error, inflight, issued, submits,
            lastQuery, lastEvent>>

CallGetDayOrNight ==
    /\ call.fn = "getDayOrNight"
    /\ call.result = None
    /\ call' = [call EXCEPT !.result =
                   Some(GetDayOrNight(call.args.dt, call.args.timezone,
                                      call.args.sunrise, call.args.sunset))]
    /\ UNCHANGED uiVars

CallGetWeatherIcon ==
    /\ call.fn = "getWeatherIcon"
    /\ call.result = None
    /\ call' = [call EXCEPT !.result =
                   Some(GetWeatherIcon(call.args.code, call.args.isDay))]
    /\ UNCHANGED uiVars

CallGetBackgroundClass ==
    /\ call.fn = "getBackgroundClass"
    /\ call.result = None
    /\ call' = [call EXCEPT !.result =
                   Some(GetBackgroundClass(call.args.code, call.args.isDay))]
    /\ UNCHANGED uiVars

DeriveNext ==
    \/ CallGetDayOrNight
    \/ CallGetWeatherIcon
    \/ CallGetBackgroundClass

DeriveSpec == DeriveInit /\ [][DeriveNext]_vars

----------------------------------------------------------------------------
\* Steps the properties speak of

\* a submit: a click on the search button or the Enter key in the input
SubmitStep == ClickSearch \/ HandleKeyDown("Enter")

\* the query submitted is empty after trimming
EmptyQuery == Trim(city) = <<>>

----------------------------------------------------------------------------
\* Properties

\* C1: the error message and the weather snapshot are never both held: at
\* most one of them is non-null in every reachable state.  The code breaks
\* it: with two requests in flight, one resolves with a snapshot and the
\* other with an error, and no error branch calls setWeatherData(null).
C1_ErrorAndSnapshotExclusive == ~(error # None /\ weatherData # None)

\* C1: a state in which an error and a snapshot are held together
C1_BothHeld ==
    /\ error = Some(MsgNotFoundHttp)
    /\ weatherData # None
    /\ inflight = {}

\* C2: a submit whose query is non-empty after trimming sets loading = true,
\* error = null and snapshot = null in the step that issues the request, and
\* the request it starts is still suspended at await fetch after that step.
C2_SubmitClearsSynchronously ==
    [][(SubmitStep /\ ~EmptyQuery) =>
          /\ loading' = TRUE
          /\ error' = None
          /\ weatherData' = None
          /\ \E r \in inflight' \ inflight : r.pc = "fetch" /\ r.q = city]_vars

\* C2: the second submit has just run, after the first request resolved
C2_Witness ==
    /\ lastEvent = "submit"
    /\ issued = 2
    /\ Cardinality(inflight) = 1
    /\ loading
    /\ error = None
    /\ weatherData = None

\* C3: a submit whose query is empty or whitespace-only issues no fetch and
\* changes nothing: query text, loading, error, snapshot, the requests in
\* flight and the counts of fetches and submits are as before.
C3_EmptySubmitIsNoOp ==
    [][(SubmitStep /\ EmptyQuery) => UNCHANGED progVars]_vars

\* C3: a whitespace-only query was just submitted while a request is pending
C3_Witness ==
    /\ lastEvent = "submitEmpty"
    /\ city = <<" ">>
    /\ inflight # {}
    /\ loading

\* C4: a step that sets an error shows the error panel, and from then until
\* a dismiss every step keeps the error panel shown and the result panel
\* hidden, issues no fetch and starts no request.
C4_ErrorPanelUntilDismiss ==
    [][/\ (error' # None /\ error' # error) =>
              (ErrorPanelShown' /\ ~ResultPanelShown')
       /\ (ErrorPanelShown /\ ~Dismiss) =>
              /\ ErrorPanelShown'
              /\ ~ResultPanelShown'
              /\ issued' = issued
              /\ {r.id : r \in inflight'} \subseteq {r.id : r \in inflight}]_vars

\* C4: a later response stored a snapshot while the error panel is shown
C4_Witness ==
    /\ lastEvent = "data"
    /\ ErrorPanelShown
    /\ weatherData # None
    /\ ~ResultPanelShown

C6_HttpFailure ==
    [][\A r \in inflight : \A status \in Statuses :
          (FetchResolves(r, status) /\ status \notin 200..299) =>
              /\ error' = Some(IF status = 404 THEN MsgNotFoundHttp ELSE MsgGeneric)
              /\ ErrorPanelShown'
              /\ weatherData' = weatherData
              /\ loading' = FALSE]_vars

\* C6: a response with status 404 has just been handled
C6_Witness ==
    /\ lastEvent = "httpError"
    /\ error = Some(MsgNotFoundHttp)
    /\ loading = FALSE

\* C7: every failure outcome leaves a non-empty error message; after an
\* exception it is the exception's message when that is non-empty and the
\* fallback text when it is absent or empty.
C7_FailureSetsMessage ==
    [][/\ \A r \in inflight : \A status \in Statuses :
             (FetchResolves(r, status) /\ status \notin 200..299) =>
                 (error' # None /\ error'[1] # "")
       /\ \A r \in inflight : \A data \in Payloads(r.q) :
             (JsonResolves(r, data) /\ data.cod = 404) =>
                 (error' # None /\ error'[1] # "")
       /\ \A r \in inflight : \A msg \in ErrMessages :
             (FetchRejects(r, msg) \/ JsonRejects(r, msg)) =>
                 /\ error' # None /\ error'[1] # ""
                 /\ error' = IF msg # None /\ msg[1] # "" THEN msg
                             ELSE Some(MsgFallback)]_vars

\* C7: an exception without a usable message has just been caught
C7_Witness ==
    /\ lastEvent \in {"fetchThrew", "jsonThrew"}
    /\ error = Some(MsgFallback)
    /\ loading = FALSE

\* C8: when the only request in flight resolves with a success status and a
\* body whose cod is not 404, the snapshot is that body, error = null and
\* loading = false.  The code breaks it: an error set by a request that was
\* in flight at the same time and resolved earlier stays set.
C8_SoleSuccessGivesSuccess ==
    [][\A r \in inflight : \A data \in Payloads(r.q) :
          (inflight = {r} /\ JsonResolves(r, data) /\ data.cod # 404) =>
              /\ weatherData' = Some(data)
              /\ error' = None
              /\ loading' = FALSE]_vars

\* C8: the last request in flight has stored its body
C8_Witness ==
    /\ lastEvent = "data"
    /\ inflight = {}
    /\ weatherData # None
    /\ loading = FALSE

\* C9: after a dismiss error = null, the query text is empty, no snapshot is
\* held and loading = false.  The code breaks it: a snapshot stored while
\* the error panel was shown is still held, and is shown, after the dismiss.
C9_DismissGivesIdle ==
    lastEvent = "dismiss" =>
        /\ error = None
        /\ city = <<>>
        /\ weatherData = None
        /\ loading = FALSE

\* C9: the error panel has just been dismissed
C9_Witness ==
    /\ lastEvent = "dismiss"
    /\ error = None
    /\ city = <<>>
    /\ loading = FALSE

\* C10: the number of fetch() calls equals the number of submits with a
\* non-empty trimmed query; such a submit issues exactly one, also while
\* loading, and no other step (a resolution, typing, a dismiss) issues any.
C10_OneFetchPerSubmit ==
    [][/\ issued' = submits'
       /\ (SubmitStep /\ ~EmptyQuery) =>
              /\ issued' = issued + 1
              /\ Cardinality({r.id : r \in inflight'} \ {r.id : r \in inflight}) = 1
       /\ ~(SubmitStep /\ ~EmptyQuery) =>
              /\ issued' = issued
              /\ {r.id : r \in inflight'} \subseteq {r.id : r \in inflight}]_vars

\* C10: two submits were made, the second while loading, and both requests
\* have resolved, one of them with a failure
C10_Witness ==
    /\ issued = 2
    /\ submits = 2
    /\ inflight = {}
    /\ error # None
    /\ weatherData # None

\* a continuation of fetchWeatherData that ends in an outcome: a failed
\* response, a thrown fetch, a parsed body or a thrown response.json()
OutcomeStep(r) ==
    \/ \E status \in Statuses : FetchResolves(r, status) /\ status \notin 200..299
    \/ \E msg \in ErrMessages : FetchRejects(r, msg)
    \/ \E data \in Payloads(r.q) : JsonResolves(r, data)
    \/ \E msg \in ErrMessages : JsonRejects(r, msg)

\* C11: when the last of the overlapping requests resolves, what is shown
\* is what that response alone gives: after a body, the result panel with
\* that body and no error; after a failure, the error panel and no snapshot
\* of an earlier response.  The code breaks it: an error set by the
\* response that resolved earlier stays set and hides the result panel.
C11_LastResolvedAloneDecides ==
    [][\A r \in inflight :
          (inflight = {r} /\ issued >= 2) =>
              /\ \A data \in Payloads(r.q) :
                    (JsonResolves(r, data) /\ data.cod # 404) =>
                        /\ weatherData' = Some(data)
                        /\ ResultPanelShown'
              /\ (OutcomeStep(r) /\ error' # error) =>
                        /\ ErrorPanelShown'
                        /\ weatherData' = None]_vars

\* C11: two requests overlapped and the one that resolved last stored its
\* body while the error of the other is still shown
C11_Witness ==
    /\ lastEvent = "data"
    /\ issued = 2
    /\ inflight = {}
    /\ ErrorPanelShown
    /\ weatherData # None

\* C14: loading changes from true to false only in a step in which a
\* request reaches its outcome; typing, a key, a submit, a dismiss and the
\* arrival of a success status leave a true loading flag true, so while the
\* one request in flight does not resolve the UI stays in Loading.
C14_LoadingEndsOnlyByOutcome ==
    [][(loading /\ ~loading') => \E r \in inflight : OutcomeStep(r)]_vars

\* C14: the one request issued is pending at response.json(), after typing
C14_Witness ==
    /\ loading
    /\ issued = 1
    /\ \E r \in inflight : r.pc = "json" /\ r.q # city
    /\ lastEvent = "type"

\* C17: in every state with a request in flight loading is true and the
\* search button is disabled.  The code breaks it: finally of the request
\* that resolves first sets loading = false while the other is in flight.
C17_InflightImpliesLoading ==
    inflight # {} => (loading /\ ~SearchButtonEnabled)

\* C17: a request is in flight and the search button is enabled
C17_Witness ==
    /\ inflight # {}
    /\ ~loading
    /\ SearchButtonEnabled

\* C18: in every state in which loading is true, error and snapshot are
\* both null.
C18_LoadingHoldsNothing ==
    loading => (error = None /\ weatherData = None)

\* C18: loading again after a snapshot was stored and a new search started
C18_Witness ==
    /\ loading
    /\ issued = 3
    /\ Cardinality(inflight) = 1
    /\ lastEvent = "submit"

\* C15: if every request issued eventually resolves, every submit with a
\* non-empty query is eventually followed by a state in which loading is
\* false and an error or a snapshot is recorded; and every step in which a
\* request reaches its outcome, by an early return or by an exception too,
\* ends with loading = false.
C15_SubmitLeadsToOutcome ==
    /\ (lastEvent = "submit") ~>
           (~loading /\ (error # None \/ weatherData # None))
    /\ [][\A r \in inflight : OutcomeStep(r) => loading' = FALSE]_vars

\* C15: the request of a submit has failed by the early return of a
\* non-success status and loading is false
C15_Witness ==
    /\ lastEvent = "httpError"
    /\ issued = 1
    /\ inflight = {}
    /\ ~loading
    /\ error = Some(MsgGeneric)

\* C16: a body that arrives is stored whichever request it answers, the
\* latest one issued or an earlier one: the snapshot shown is that of the
\* response that resolved last, not that of the query submitted last.
C16_LastResolvedIsShown ==
    [][\A r \in inflight : \A data \in Payloads(r.q) :
          (JsonResolves(r, data) /\ data.cod # 404) =>
              /\ weatherData' = Some(data)
              /\ weatherData'[1].name = r.q]_vars

\* C16: two requests for different queries overlapped, the later one
\* resolved first, and with none in flight the result panel shows the
\* snapshot of the earlier query, not of the query submitted last
C16_Witness ==
    /\ issued = 2
    /\ inflight = {}
    /\ lastEvent = "data"
    /\ ResultPanelShown
    /\ lastQuery = Some(<<" ", "Z", " ">>)
    /\ weatherData[1].name = <<"P">>

\* C12: getDayOrNight(dt, timezone, sunrise, sunset) is true exactly when
\* sunrise <= dt <= sunset, both ends included, whatever the offset.
C12_DayIffBetweenSunriseAndSunset ==
    (call.fn = "getDayOrNight" /\ call.result # None) =>
        call.result = Some(/\ call.args.sunrise <= call.args.dt
                           /\ call.args.dt <= call.args.sunset)

\* C12: at sunset exactly, under a negative offset, the answer is day
C12_Witness ==
    /\ call.fn = "getDayOrNight"
    /\ call.result = Some(TRUE)
    /\ call.args.dt = call.args.sunset
    /\ call.args.sunrise < call.args.dt
    /\ call.args.timezone < 0

\* the two-character prefixes the functions tell apart
KnownPrefixes ==
    {<<"0", "1">>, <<"0", "2">>, <<"0", "3">>, <<"0", "4">>, <<"0", "9">>,
     <<"1", "0">>, <<"1", "1">>, <<"1", "3">>, <<"5", "0">>}

\* C13: the icon and the theme depend on a code only through its first two
\* characters; prefixes 09 and 10 give the rain icon and the rain theme by
\* day and by night; a prefix outside 01 02 03 04 09 10 11 13 50 gives the
\* default cloud icon and the neutral theme, which is also the theme without
\* a code; with no code or an empty code the icon is a cloud.
C13_IconAndThemeByPrefix ==
    (call.fn \in {"getWeatherIcon", "getBackgroundClass"} /\ call.result # None) =>
        LET code == call.args.code
            isDay == call.args.isDay
            isIcon == call.fn = "getWeatherIcon"
            out == call.result[1]
        IN  IF NoCode(code)
            THEN IF isIcon THEN out.glyph = "Cloud" ELSE out = ThemeNeutral
            ELSE LET prefix == SubSeq(code[1], 1, IF Len(code[1]) = 1 THEN 1 ELSE 2)
                 IN  /\ out = IF isIcon
                              THEN GetWeatherIcon(Some(prefix), isDay)
                              ELSE GetBackgroundClass(Some(prefix), isDay)
                     /\ prefix \in {<<"0", "9">>, <<"1", "0">>} =>
                            out = IF isIcon
                                  THEN Icon("CloudRain", "text-blue-400")
                                  ELSE ThemeRain
                     /\ prefix \notin KnownPrefixes =>
                            out = IF isIcon
                                  THEN Icon("Cloud", "text-gray-400")
                                  ELSE ThemeNeutral

\* C13: the theme of a night-time code with prefix 10 is the rain theme
C13_Witness ==
    /\ call.fn = "getBackgroundClass"
    /\ call.args.code = Some(<<"1", "0", "d">>)
    /\ call.args.isDay = FALSE
    /\ call.result = Some(ThemeRain)

====
